---- MODULE Spec2Model ----
(***************************************************************************)
(* A model of the VenaETL client (src/vepi/vena_etl.py): the submission    *)
(* operations start_with_data and start_with_file with the status poller   *)
(* _monitor_job_status they share, the explicit job operations (run_job,   *)
(* process_data, wait_for_job_completion, cancel_job) and export_data.     *)
(*                                                                         *)
(* The client is single-threaded and blocking.  One step of the model is   *)
(* one blocking call of the code (an HTTP request with the handling of its *)
(* response, or a sleep), together with all the code that runs up to the   *)
(* next blocking call.  The remote service is the environment: it chooses  *)
(* the response of every request.  The status history of a job is chosen   *)
(* when the job is created (script); transport failures are chosen at the  *)
(* request that suffers them.                                              *)
(***************************************************************************)
EXTENDS Integers, Sequences, FiniteSets, TLC

VARIABLES
    op,          \* the public operation being executed ("none" before any call)
    pc,          \* the position of the call in the code
    arg,         \* the argument the operation was called with
    job_id,      \* local job_id of the running call
    job_status,  \* local job_status of _monitor_job_status
    script,      \* the status values the remote job goes through, in order
    log,         \* the blocking calls of the current call, in order
    result,      \* how the call ended: nothing yet, a return, or a raise
    params,      \* poll_interval and timeout of the call
    elapsed,     \* time.time() - start_time in wait_for_job_completion
    config,      \* the attributes of self, set by __init__
    body,        \* the multipart body start_with_file built for its POST
    pages,       \* the page requests of export_data and their responses, in order
    all_data,    \* local all_data of export_data
    next_page_url, \* local next_page_url of export_data
    columns      \* the column names of the DataFrame export_data returned

\* The locals of export_data.
exportVars == <<pages, all_data, next_page_url, columns>>

vars ==
    <<op, pc, arg, job_id, job_status, script, log, result, params, elapsed,
      config, body, pages, all_data, next_page_url, columns>>

----------------------------------------------------------------------------
(* Bounds of the model.                                                    *)

\* The longest status history of a job.  After its last value the job stays
\* in that state.
MaxScript == 3

\* The number of status checks after which the model stops following a
\* poller (the code itself has no such limit).
MaxChecks == 4

\* The number of pages after which the model stops following export_data
\* (the code follows the cursor for as long as the service gives one).
MaxPages == 2

\* time.sleep(1) before the first status check.
InitialDelay == 1

\* A faulty variant of CheckDelay: the initial delay used between checks too.
CheckDelay_AsInitial == InitialDelay

\* time.sleep(3) between status checks.
CheckDelay == 3

----------------------------------------------------------------------------
(* Values.                                                                 *)

JobIds == {"job1", "job2"}

NoJob == "-"

NoStatus == "-"

\* Bare status strings of GET /etl/jobs/{id}/status.  "RUNNING" and "BOGUS"
\* stand for the values the code does not name (an intermediate state, an
\* unrecognised string); "FAILED" is named only by wait_for_job_completion.
StatusValues == {"COMPLETED", "ERROR", "CANCELLED", "FAILED", "RUNNING", "BOGUS"}

\* What can go wrong with one HTTP exchange, as the requests library reports
\* it: requests.get/post raises (conn_error), raise_for_status raises
\* (http_error), response.json() raises (bad_json).
TransportFailures == {"conn_error", "http_error", "bad_json"}

\* Responses to the job-creation POSTs.
PostOutcomes == {"conn_error", "http_error", "ok_bad_json", "ok_no_id", "ok_id"}

\* Responses to the extended-detail GET /etl/jobs/{id}.
DetailOutcomes ==
    {"conn_error", "non_200", "ok_error", "ok_message", "ok_dict", "ok_list",
     "ok_bad_json"}

\* Responses to the POSTs of submit_job and cancel_job.
SubmitOutcomes == {"conn_error", "http_error", "ok_bad_json", "ok"}

\* The status field of the object GET /etl/jobs/{id} answers with; "None"
\* when the object has no such field.
StructStatuses == StatusValues \cup {"None"}

\* Responses to get_job_status.
GetJobOutcomes == TransportFailures \cup StructStatuses

\* The seconds one request of wait_for_job_completion can take.
RequestSecs == {0, 6}

\* poll_interval and timeout of a call, in seconds.
WaitParams ==
    { [poll_interval |-> 10, timeout |-> 5], [poll_interval |-> 1, timeout |-> 2] }

NoParams == [poll_interval |-> 0, timeout |-> 0]

\* Texts are sequences of characters; "sp" and "nl" are whitespace.
Whitespace == {"sp", "nl"}

Texts ==
    { <<>>, <<"sp">>, <<"nl", "sp">>, <<"x">>, <<"sp", "x", "nl">> }

\* One entry of the log.  kind: the request, or "sleep" ("status" is GET
\* /etl/jobs/{id}/status; "detail" and "getJob" are GET /etl/jobs/{id}, sent
\* by _monitor_job_status and by get_job_status); job: the job id of
\* the URL (for a creation POST, the id the response carried); resp: the
\* response; secs: the length of a sleep.
Ev(kind, job, resp, secs) ==
    [kind |-> kind, job |-> job, resp |-> resp, secs |-> secs]

NoResult ==
    [kind |-> "none", exc |-> "-", msg |-> "-", status |-> "-",
     detail |-> "-", value |-> "-"]

Return(v) ==
    [kind |-> "return", exc |-> "-", msg |-> "-", status |-> "-",
     detail |-> "-", value |-> v]

Raise(exc, msg, status, detail) ==
    [kind |-> "raise", exc |-> exc, msg |-> msg, status |-> status,
     detail |-> detail, value |-> "-"]

NoArg == [repr |-> "-", nrows |-> 0, ncols |-> 0, exists |-> FALSE, text |-> <<>>]

\* The attributes __init__ gives self from its arguments; model_id is "None"
\* when the client is constructed without one, and intersections_url is then
\* None (the empty URL here).  A URL is the sequence of the parts it is
\* formatted from.
Construct(hub, api_user, api_key, template_id, model_id) ==
    [ hub |-> hub,
      api_user |-> api_user,
      api_key |-> api_key,
      template_id |-> template_id,
      model_id |-> model_id,
      base_url |-> <<hub, "api/public/v1">>,
      start_with_data_url |-> <<hub, "etl/templates", template_id, "startWithData">>,
      start_with_file_url |-> <<hub, "etl/templates", template_id, "startWithFile">>,
      create_job_url |-> <<hub, "etl/templates", template_id, "jobs">>,
      job_status_url |-> <<hub, "etl/jobs">>,
      intersections_url |->
          IF model_id = "None" THEN <<>> ELSE <<hub, "models", model_id, "intersections">>,
      headers |-> [accept |-> "application/json", content_type |-> "application/json"],
      file_headers |-> [accept |-> "application/json"] ]

\* The client of the model, constructed with a model id.
Configs == { Construct("us1", "user", "key", "template", "model") }

\* No multipart body has been built: a body without parts.
NoBody == <<>>

\* One page of the export: the number of rows of its data (the header row
\* included), the column names of metadata.headers, and metadata.nextPage
\* ("None" for null or absent).
Headers == {"hA", "hB"}

PageRows == {1, 3}

NextPages == {"None", "url2", "url3"}

NoUrl == "-"

\* The URL of the first page: intersections_url with ?pageSize.
FirstUrl == "intersections?pageSize"

NoColumns == "-"

\* One entry of pages: the URL requested, the response ("ok" or the failure)
\* and what the page held.
Page(url, resp, rows, headers, next) ==
    [url |-> url, resp |-> resp, rows |-> rows, headers |-> headers, next |-> next]

----------------------------------------------------------------------------
(* Inputs.                                                                 *)

\* Row and column counts of the tabular inputs.
Sizes == {0, 2}

\* A rectangular list of rows: nrows rows of ncols cells each.
RowLists ==
    { [repr |-> "list", nrows |-> r, ncols |-> c, exists |-> FALSE, text |-> <<>>] :
        r \in Sizes, c \in Sizes } \ 
    { [repr |-> "list", nrows |-> 0, ncols |-> c, exists |-> FALSE, text |-> <<>>] :
        c \in Sizes \ {0} }

DataFrames ==
    { [repr |-> "DataFrame", nrows |-> r, ncols |-> c, exists |-> FALSE, text |-> <<>>] :
        r \in Sizes, c \in Sizes }

\* A path names a file that exists, with its text, or no file.
Paths ==
    { [repr |-> "path", nrows |-> 0, ncols |-> 0, exists |-> TRUE, text |-> t] :
        t \in Texts } \cup
    { [repr |-> "path", nrows |-> 0, ncols |-> 0, exists |-> FALSE, text |-> <<>>] }

\* A file-like object, with the text its read() returns.
FileObjects ==
    { [repr |-> "file", nrows |-> 0, ncols |-> 0, exists |-> TRUE, text |-> t] :
        t \in Texts }

\* A value that is no path, DataFrame or file-like object.
OtherObjects ==
    { [repr |-> "other", nrows |-> 0, ncols |-> 0, exists |-> FALSE, text |-> <<>>] }

StartWithDataArgs == RowLists \cup DataFrames

StartWithFileArgs == Paths \cup DataFrames \cup FileObjects \cup OtherObjects

\* All status histories of a job: 1 to MaxScript status values.
Scripts == UNION { [1..n -> StatusValues] : n \in 1..MaxScript }

----------------------------------------------------------------------------
(* Pure parts of the code.                                                 *)

\* pandas' df.empty, as the code reads it: some axis has length 0.
DataFrameEmpty(df) == df.nrows = 0 \/ df.ncols = 0

\* _validate_dataframe(df) with no required_columns: "ok", or the message of
\* the ValueError it raises.
ValidateDataframe(a) ==
    IF a.repr # "DataFrame" THEN "Input must be a pandas DataFrame"
    ELSE IF DataFrameEmpty(a) THEN "DataFrame cannot be empty"
    ELSE "ok"

\* str.strip(): the text without its leading and trailing whitespace.
RECURSIVE LStrip(_)
LStrip(t) ==
    IF t = <<>> THEN <<>>
    ELSE IF Head(t) \in Whitespace THEN LStrip(Tail(t))
    ELSE t

RECURSIVE RStrip(_)
RStrip(t) ==
    IF t = <<>> THEN <<>>
    ELSE IF t[Len(t)] \in Whitespace THEN RStrip(SubSeq(t, 1, Len(t) - 1))
    ELSE t

Strip(t) == RStrip(LStrip(t))

\* _dataframe_to_csv_string(df) of a DataFrame that is not empty: pandas
\* writes a header line and one line per row, so the text is never of length
\* 0; what it holds depends on the cells, which the model leaves open.
DataFrameToCsvStrings(df) == { t \in Texts : Len(t) > 0 }

\* Faulty variants of MonitorBranch, used to see that the properties depend
\* on it: FAILED taken for success; the break on COMPLETED missing; FAILED
\* taken for a terminal failure.
MonitorBranch_FailedCompletes(s) ==
    IF s \in {"COMPLETED", "FAILED"} THEN "completed"
    ELSE IF s \in {"ERROR", "CANCELLED"} THEN "failed"
    ELSE "continue"

MonitorBranch_NoBreak(s) ==
    IF s \in {"ERROR", "CANCELLED"} THEN "failed" ELSE "continue"

MonitorBranch_FailedTerminal(s) ==
    IF s = "COMPLETED" THEN "completed"
    ELSE IF s \in {"ERROR", "CANCELLED", "FAILED"} THEN "failed"
    ELSE "continue"

\* A faulty variant of MonitorBranch: an unrecognised status ends the polling.
MonitorBranch_UnknownEnds(s) ==
    IF s = "COMPLETED" THEN "completed"
    ELSE IF s \in {"ERROR", "CANCELLED", "BOGUS"} THEN "failed"
    ELSE "continue"

\* The branch _monitor_job_status takes on a decoded status value.
MonitorBranch(s) ==
    IF s = "COMPLETED" THEN "completed"
    ELSE IF s \in {"ERROR", "CANCELLED"} THEN "failed"
    ELSE "continue"

\* error_details of _monitor_job_status, by the response of the detail GET.
ErrorDetails(r) ==
    CASE r = "non_200"     -> ""
      [] r = "ok_error"    -> "Error details"
      [] r = "ok_message"  -> "Error message"
      [] r = "ok_dict"     -> "Error response"
      [] r = "ok_bad_json" -> "Error response text"
      [] OTHER             -> ""

\* What _monitor_job_status raises after the detail GET answered r, the
\* observed status being s.  requests.get raising (conn_error) happens inside
\* the try of the loop and is caught by its except clause.
MonitorFailure(s, r) ==
    IF r = "conn_error"
    THEN Raise("Exception", "Failed to check job status", "-", "-")
    ELSE Raise("Exception", "Job failed with status", s, ErrorDetails(r))

\* A faulty variant of CheckFailure: the failure is logged and the loop goes
\* on.
CheckFailure_Swallowed(f, legacy) == NoResult

\* What _monitor_job_status raises when a status check fails with f.  The
\* error of response.json() is a RequestException from requests 2.27 on and
\* a plain ValueError before (legacy): the except clause catches the first
\* only.
CheckFailure(f, legacy) ==
    IF f = "bad_json" /\ legacy
    THEN Raise("JSONDecodeError", "-", "-", "-")
    ELSE Raise("Exception", "Failed to check job status", "-", "-")

\* What start_with_data's caller makes of its result: process_data
\* subscripts the None it returns (job_info['id']).
AfterStartWithData(o, res) ==
    IF o = "process_data" /\ res.kind = "return"
    THEN Raise("TypeError", "'NoneType' object is not subscriptable", "-", "-")
    ELSE res

\* What the caller of _monitor_job_status returns once the poller returned.
AfterMonitor(o, j) ==
    IF o = "start_with_file" THEN Return(j)
    ELSE AfterStartWithData(o, Return("None"))

\* A faulty variant of UrlJob: the URL names a fixed job.
UrlJob_Fixed(j) == "job1"

\* The job id in a URL built from the local job_id.
UrlJob(j) == j

\* The exception of a request that fails with f and is not caught.
RequestFailure(f) ==
    CASE f = "conn_error" -> Raise("ConnectionError", "-", "-", "-")
      [] f = "http_error" -> Raise("HTTPError", "-", "-", "-")
      [] OTHER            -> Raise("JSONDecodeError", "-", "-", "-")

\* A faulty variant of CreateJobResult: a response without id is not noticed.
CreateJobResult_NoIdGoesOn(r) ==
    CASE r \in {"ok_id", "ok_no_id"} -> NoResult
      [] r = "ok_bad_json" -> Raise("JSONDecodeError", "-", "-", "-")
      [] r = "conn_error" -> Raise("ConnectionError", "-", "-", "-")
      [] OTHER -> Raise("HTTPError", "-", "-", "-")

\* How run_job goes on from the response r of create_job's POST.
CreateJobResult(r) ==
    CASE r = "ok_id"    -> NoResult
      [] r = "ok_no_id" -> Raise("ValueError", "Failed to create job", "-", "-")
      [] r = "ok_bad_json" -> RequestFailure("bad_json")
      [] OTHER          -> RequestFailure(r)

\* A faulty variant of SubmitResult: a failed POST is not noticed.
SubmitResult_Swallowed(r) == NoResult

\* How a call goes on from the response r of submit_job's or cancel_job's
\* POST: NoResult when the response was decoded.
SubmitResult(r) ==
    CASE r = "ok" -> NoResult
      [] r = "ok_bad_json" -> RequestFailure("bad_json")
      [] OTHER -> RequestFailure(r)

\* A faulty variant of RunJobNext: the initial get_job_status is left out.
RunJobNext_NoInitialStatus(stage) ==
    CASE stage = "rj_create" -> "rj_submit"
      [] stage = "rj_status" -> "rj_submit"
      [] OTHER               -> "wait_check"

\* The stage of run_job that follows a stage that did not raise.
RunJobNext(stage) ==
    CASE stage = "rj_create" -> "rj_status"
      [] stage = "rj_status" -> "rj_submit"
      [] OTHER               -> "wait_check"

\* A faulty variant of TimedOut: the comparison is the wrong way round.
TimedOut_Reversed(e, timeout) == e < timeout

\* Faulty variants of WaitTerminal: the terminal set of the other poller
\* added; nothing but COMPLETED taken for terminal.
WaitTerminal_Superset(s) == s \in {"COMPLETED", "FAILED", "ERROR", "CANCELLED"}

WaitTerminal_OnlyCompleted(s) == s = "COMPLETED"

\* The statuses at which wait_for_job_completion returns.
WaitTerminal(s) == s \in {"COMPLETED", "FAILED"}

\* A faulty variant of TimedOut: one second of grace after the deadline.
TimedOut_Late(e, timeout) == e > timeout + 1

\* A faulty variant of TimedOut: the deadline test is not strict.
TimedOut_NotStrict(e, timeout) == e >= timeout

\* The deadline test of wait_for_job_completion, e seconds after the start.
TimedOut(e, timeout) == e > timeout

\* How wait_for_job_completion goes on from the response r of a status
\* check that ended e seconds after the start.
WaitStep(r, e, timeout) ==
    IF r \in TransportFailures THEN RequestFailure(r)
    ELSE IF WaitTerminal(r) THEN Return(r)
    ELSE IF TimedOut(e, timeout) THEN Raise("TimeoutError", "did not complete", "-", "-")
    ELSE NoResult

\* A faulty variant of SwdPostResult: a failed POST does not end the call.
SwdPostResult_PollsAnyway(r, legacy) ==
    IF r = "ok_no_id" THEN Raise("KeyError", "id", "-", "-") ELSE NoResult

\* A faulty variant of SwdPostResult: a response without id is not noticed.
SwdPostResult_NoIdPolls(r, legacy) ==
    CASE r \in {"ok_id", "ok_no_id"} -> NoResult
      [] r \in {"conn_error", "http_error"} -> Return("None")
      [] r = "ok_bad_json" ->
            IF legacy THEN Raise("JSONDecodeError", "-", "-", "-") ELSE Return("None")

\* How start_with_data goes on from the response r of its POST: NoResult
\* when it has a job id and goes on to poll.
SwdPostResult(r, legacy) ==
    CASE r = "ok_id" -> NoResult
      [] r \in {"conn_error", "http_error"} -> Return("None")
      [] r = "ok_bad_json" ->
            IF legacy THEN Raise("JSONDecodeError", "-", "-", "-") ELSE Return("None")
      [] r = "ok_no_id" -> Raise("KeyError", "id", "-", "-")

\* Faulty variants of SwfPostResult: the job id is returned without polling;
\* the HTTP status of the response is not looked at.
SwfPostResult_NoPolling(r, legacy) ==
    CASE r = "ok_id" -> Return("job1")
      [] r = "ok_no_id" -> Raise("ValueError", "No job ID received from Vena API", "-", "-")
      [] OTHER -> Raise("RequestException", "-", "-", "-")

SwfPostResult_StatusIgnored(r, legacy) ==
    CASE r \in {"ok_id", "http_error"} -> NoResult
      [] r = "ok_no_id" -> Raise("ValueError", "No job ID received from Vena API", "-", "-")
      [] OTHER -> Raise("RequestException", "-", "-", "-")

\* How start_with_file goes on from the response r of its POST.
SwfPostResult(r, legacy) ==
    CASE r = "ok_id" -> NoResult
      [] r = "conn_error" -> Raise("RequestException", "-", "-", "-")
      [] r = "http_error" -> Raise("RequestException", "Error details", "-", "-")
      [] r = "ok_bad_json" ->
            IF legacy THEN Raise("JSONDecodeError", "-", "-", "-")
            ELSE Raise("RequestException", "-", "-", "-")
      [] r = "ok_no_id" -> Raise("ValueError", "No job ID received from Vena API", "-", "-")

\* The input handling of start_with_data before its POST: "ok", or the
\* message of the ValueError raised.
SwdValidate(a) ==
    IF a.repr = "DataFrame" THEN ValidateDataframe(a) ELSE "ok"

\* A faulty variant of ContentEmpty: the text is not stripped.
ContentEmpty_NoStrip(t) == t = <<>>

\* Whether start_with_file takes the file content for empty.
ContentEmpty(t) == Strip(t) = <<>>

\* The input handling of start_with_file before its POST, the file content
\* being t: "ok", or the message of the ValueError raised.
SwfValidate(a, t) ==
    CASE a.repr = "path" ->
            IF ~a.exists THEN "File not found"
            ELSE IF ContentEmpty(t) THEN "File is empty" ELSE "ok"
      [] a.repr = "DataFrame" ->
            IF DataFrameEmpty(a) THEN "DataFrame is empty"
            ELSE IF ContentEmpty(t) THEN "File is empty" ELSE "ok"
      [] a.repr = "file" ->
            IF ContentEmpty(t) THEN "File is empty" ELSE "ok"
      [] OTHER -> "Invalid file type"

\* The texts file_content can hold for the argument a.
FileContents(a) ==
    IF a.repr = "DataFrame" /\ ~DataFrameEmpty(a) THEN DataFrameToCsvStrings(a)
    ELSE {a.text}

\* A faulty variant of SelfAfter: export_data keeps its cursor on self.
SelfAfter_CursorOnSelf(c, o) ==
    IF o = "export_data" THEN [c EXCEPT !.intersections_url = <<>>] ELSE c

\* The attributes of self after a step of operation o: no statement of any
\* method assigns to an attribute of self or changes the two header dicts.
SelfAfter(c, o) == c

\* The filename start_with_file uploads under when the caller names none:
\* the basename of a path, a generated name otherwise.
FileName(a) == IF a.repr = "path" THEN "basename" ELSE "data_upload_now.csv"

\* A faulty variant of Metadata: the fields are those of the object itself.
Metadata_Flat(filename) ==
    [ partName |-> "file", fileFormat |-> "CSV", fileEncoding |-> "UTF-8",
      fileName |-> filename ]

\* The JSON object of the metadata part.
Metadata(filename) ==
    [ input |-> [ partName |-> "file", fileFormat |-> "CSV",
                  fileEncoding |-> "UTF-8", fileName |-> filename ] ]

\* The files argument of the POST of start_with_file: the parts by name,
\* each with its filename, content and content type.
MultipartBody(t, filename) ==
    [ file |-> [ filename |-> filename, content |-> t,
                 type |-> "text/csv; charset=utf-8" ],
      metadata |-> [ filename |-> "metadata.json", content |-> Metadata(filename),
                     type |-> "application/json" ] ]

\* data_response['data'][1:] of page p, whose data has n rows: row <<p, i>>
\* is the i-th row of the page.
DataRows(p, n) == [ i \in 1..(n - 1) |-> <<p, i + 1>> ]

\* A faulty variant of ExportFailure: the rows fetched so far are returned.
ExportFailure_Partial(f, legacy) == Return("DataFrame")

\* How export_data ends when a page request fails with f: the except clause
\* prints and returns None; the error of response.json() is a
\* RequestException from requests 2.27 on and a plain ValueError before.
ExportFailure(f, legacy) ==
    IF f = "bad_json" /\ legacy
    THEN Raise("JSONDecodeError", "-", "-", "-")
    ELSE Return("None")

\* pd.DataFrame(all_data) and the assignment of the column names: a frame
\* made of no rows has no columns, and pandas refuses to give it names.
BuildFrame(data, headers) ==
    IF data = <<>>
    THEN Raise("ValueError", "Length mismatch", "-", "-")
    ELSE Return("DataFrame")

\* Events of the log.
RECURSIVE SelectKind(_, _)
SelectKind(l, k) ==
    IF l = <<>> THEN <<>>
    ELSE IF Head(l).kind = k THEN <<Head(l)>> \o SelectKind(Tail(l), k)
    ELSE SelectKind(Tail(l), k)

NumChecks == Len(SelectKind(log, "status"))

\* The state of the remote job at its n-th status check: script[n], and the
\* last value of the script from then on.
StatusAt(n) == script[IF n <= Len(script) THEN n ELSE Len(script)]

----------------------------------------------------------------------------
(* The operations.                                                         *)

Init ==
    /\ op = "none"
    /\ pc = "idle"
    /\ arg = NoArg
    /\ job_id = NoJob
    /\ job_status = NoStatus
    /\ script = <<>>
    /\ log = <<>>
    /\ result = NoResult
    /\ params = NoParams
    /\ elapsed = 0
    /\ config \in Configs
    /\ body = NoBody
    /\ pages = <<>>
    /\ all_data = <<>>
    /\ next_page_url = NoUrl
    /\ columns = NoColumns

\* A call can begin when no call is running.
CanCall == pc = "idle"

\* The call has ended and its caller has the result: the locals of the call
\* are gone, and the client holds nothing of it.
Finish ==
    /\ pc = "done"
    /\ op' = "none"
    /\ pc' = "idle"
    /\ arg' = NoArg
    /\ job_id' = NoJob
    /\ job_status' = NoStatus
    /\ script' = <<>>
    /\ log' = <<>>
    /\ result' = NoResult
    /\ params' = NoParams
    /\ elapsed' = 0
    /\ config' = SelfAfter(config, op)
    /\ body' = NoBody
    /\ pages' = <<>>
    /\ all_data' = <<>>
    /\ next_page_url' = NoUrl
    /\ columns' = NoColumns

\* start_with_data(json_data), to its POST.
Call_start_with_data ==
    /\ CanCall
    /\ \E a \in StartWithDataArgs :
        /\ op' = "start_with_data"
        /\ arg' = a
        /\ IF SwdValidate(a) = "ok"
           THEN pc' = "swd_post" /\ result' = NoResult
           ELSE pc' = "done" /\ result' = Raise("ValueError", SwdValidate(a), "-", "-")
    /\ job_id' = NoJob
    /\ job_status' = NoStatus
    /\ script' = <<>>
    /\ log' = <<>>
    /\ UNCHANGED <<params, elapsed>>
    /\ config' = SelfAfter(config, op')
    /\ UNCHANGED <<body, exportVars>>

\* The POST of start_with_data and the handling of its response.
SwdPost ==
    /\ pc = "swd_post"
    /\ \E r \in PostOutcomes, j \in JobIds, sc \in Scripts, legacy \in BOOLEAN :
        LET res == SwdPostResult(r, legacy)
            got == IF r = "ok_id" THEN j ELSE NoJob
        IN  /\ log' = Append(log, Ev("startWithData", got, r, 0))
            /\ result' = AfterStartWithData(op, res)
            /\ job_id' = IF res.kind = "none" THEN got ELSE NoJob
            /\ script' = IF res.kind = "none" THEN sc ELSE <<>>
            /\ pc' = IF res.kind = "none" THEN "mon_sleep1" ELSE "done"
    /\ UNCHANGED <<op, arg, job_status>>
    /\ UNCHANGED <<params, elapsed>>
    /\ config' = SelfAfter(config, op)
    /\ UNCHANGED <<body, exportVars>>

\* start_with_file(file, filename), to its POST.
Call_start_with_file ==
    /\ CanCall
    /\ \E a \in StartWithFileArgs :
        \E t \in FileContents(a) :
            /\ op' = "start_with_file"
            /\ arg' = a
            /\ IF SwfValidate(a, t) = "ok"
               THEN /\ pc' = "swf_post"
                    /\ result' = NoResult
                    /\ body' = MultipartBody(t, FileName(a))
               ELSE /\ pc' = "done"
                    /\ result' = Raise("ValueError", SwfValidate(a, t), "-", "-")
                    /\ body' = NoBody
    /\ job_id' = NoJob
    /\ job_status' = NoStatus
    /\ script' = <<>>
    /\ log' = <<>>
    /\ UNCHANGED <<params, elapsed>>
    /\ config' = SelfAfter(config, op')
    /\ UNCHANGED exportVars

\* The POST of start_with_file and the handling of its response.
SwfPost ==
    /\ pc = "swf_post"
    /\ \E r \in PostOutcomes, j \in JobIds, sc \in Scripts, legacy \in BOOLEAN :
        LET res == SwfPostResult(r, legacy)
            got == IF r = "ok_id" THEN j ELSE NoJob
        IN  /\ log' = Append(log, Ev("startWithFile", got, r, 0))
            /\ result' = res
            /\ job_id' = IF res.kind = "none" THEN got ELSE NoJob
            /\ script' = IF res.kind = "none" THEN sc ELSE <<>>
            /\ pc' = IF res.kind = "none" THEN "mon_sleep1" ELSE "done"
    /\ UNCHANGED <<op, arg, job_status>>
    /\ UNCHANGED <<params, elapsed>>
    /\ config' = SelfAfter(config, op)
    /\ UNCHANGED <<body, exportVars>>

\* _monitor_job_status(job_id) called on its own, for a job that exists.
Call_monitor_job_status ==
    /\ CanCall
    /\ \E j \in JobIds, sc \in Scripts :
        /\ job_id' = j
        /\ script' = sc
    /\ op' = "_monitor_job_status"
    /\ arg' = NoArg
    /\ job_status' = NoStatus
    /\ log' = <<>>
    /\ result' = NoResult
    /\ pc' = "mon_sleep1"
    /\ UNCHANGED <<params, elapsed>>
    /\ config' = SelfAfter(config, op')
    /\ UNCHANGED <<body, exportVars>>

\* time.sleep(1) before the first check.
MonInitialSleep ==
    /\ pc = "mon_sleep1"
    /\ log' = Append(log, Ev("sleep", NoJob, "-", InitialDelay))
    /\ pc' = "mon_check"
    /\ UNCHANGED <<op, arg, job_id, job_status, script, result>>
    /\ UNCHANGED <<params, elapsed>>
    /\ config' = SelfAfter(config, op)
    /\ UNCHANGED <<body, exportVars>>

\* One status check of the loop and the branch taken on its response.
MonCheck ==
    /\ pc = "mon_check"
    /\ NumChecks < MaxChecks
    /\ \E f \in {"none"} \cup TransportFailures, legacy \in BOOLEAN :
        LET s == StatusAt(NumChecks + 1)
            branch == MonitorBranch(s)
        IN  IF f # "none"
            THEN /\ log' = Append(log, Ev("status", UrlJob(job_id), f, 0))
                 /\ result' = CheckFailure(f, legacy)
                 /\ pc' = IF CheckFailure(f, legacy).kind = "raise"
                          THEN "done" ELSE "mon_sleep3"
                 /\ UNCHANGED job_status
            ELSE /\ log' = Append(log, Ev("status", UrlJob(job_id), s, 0))
                 /\ job_status' = s
                 /\ result' = IF branch = "completed"
                              THEN AfterMonitor(op, job_id) ELSE NoResult
                 /\ pc' = CASE branch = "completed" -> "done"
                            [] branch = "failed"    -> "mon_detail"
                            [] OTHER                -> "mon_sleep3"
    /\ UNCHANGED <<op, arg, job_id, script>>
    /\ UNCHANGED <<params, elapsed>>
    /\ config' = SelfAfter(config, op)
    /\ UNCHANGED <<body, exportVars>>

\* The extended-detail GET after a terminal failure status, and the raise.
MonDetail ==
    /\ pc = "mon_detail"
    /\ \E r \in DetailOutcomes :
        /\ log' = Append(log, Ev("detail", UrlJob(job_id), r, 0))
        /\ result' = MonitorFailure(job_status, r)
    /\ pc' = "done"
    /\ UNCHANGED <<op, arg, job_id, job_status, script>>
    /\ UNCHANGED <<params, elapsed>>
    /\ config' = SelfAfter(config, op)
    /\ UNCHANGED <<body, exportVars>>

\* time.sleep(3) at the end of a loop iteration.
MonSleep ==
    /\ pc = "mon_sleep3"
    /\ log' = Append(log, Ev("sleep", NoJob, "-", CheckDelay))
    /\ pc' = "mon_check"
    /\ UNCHANGED <<op, arg, job_id, job_status, script, result>>
    /\ UNCHANGED <<params, elapsed>>
    /\ config' = SelfAfter(config, op)
    /\ UNCHANGED <<body, exportVars>>

\* process_data(data, poll_interval, timeout), to the POST of the
\* start_with_data it calls.
Call_process_data ==
    /\ CanCall
    /\ \E a \in StartWithDataArgs, p \in WaitParams :
        /\ op' = "process_data"
        /\ arg' = a
        /\ params' = p
        /\ IF SwdValidate(a) = "ok"
           THEN pc' = "swd_post" /\ result' = NoResult
           ELSE pc' = "done" /\ result' = Raise("ValueError", SwdValidate(a), "-", "-")
    /\ job_id' = NoJob
    /\ job_status' = NoStatus
    /\ script' = <<>>
    /\ log' = <<>>
    /\ UNCHANGED elapsed
    /\ config' = SelfAfter(config, op')
    /\ UNCHANGED <<body, exportVars>>

\* wait_for_job_completion(job_id, poll_interval, timeout) called on its own.
Call_wait_for_job_completion ==
    /\ CanCall
    /\ \E j \in JobIds, p \in WaitParams :
        /\ job_id' = j
        /\ params' = p
    /\ op' = "wait_for_job_completion"
    /\ pc' = "wait_check"
    /\ elapsed' = 0
    /\ UNCHANGED <<arg, job_status, script, log, result>>
    /\ config' = SelfAfter(config, op')
    /\ UNCHANGED <<body, exportVars>>

\* One get_job_status of the loop of wait_for_job_completion, the test of
\* its status and the deadline test.
WaitCheck ==
    /\ pc = "wait_check"
    /\ \E r \in GetJobOutcomes, d \in RequestSecs :
        LET res == WaitStep(r, elapsed + d, params.timeout)
        IN  /\ log' = Append(log, Ev("getJob", UrlJob(job_id), r, d))
            /\ elapsed' = elapsed + d
            /\ result' = res
            /\ pc' = IF res.kind = "none" THEN "wait_sleep" ELSE "done"
    /\ UNCHANGED <<op, arg, job_id, job_status, script, params>>
    /\ config' = SelfAfter(config, op)
    /\ UNCHANGED <<body, exportVars>>

\* time.sleep(poll_interval) at the end of a loop iteration.
WaitSleep ==
    /\ pc = "wait_sleep"
    /\ log' = Append(log, Ev("sleep", NoJob, "-", params.poll_interval))
    /\ elapsed' = elapsed + params.poll_interval
    /\ pc' = "wait_check"
    /\ UNCHANGED <<op, arg, job_id, job_status, script, result, params>>
    /\ config' = SelfAfter(config, op)
    /\ UNCHANGED <<body, exportVars>>

\* run_job(poll_interval, timeout), to the POST of create_job.
Call_run_job ==
    /\ CanCall
    /\ \E p \in WaitParams : params' = p
    /\ op' = "run_job"
    /\ pc' = "rj_create"
    /\ UNCHANGED <<arg, job_id, job_status, script, log, result, elapsed>>
    /\ config' = SelfAfter(config, op')
    /\ UNCHANGED <<body, exportVars>>

\* create_job() and the test of the id it returns.
RjCreate ==
    /\ pc = "rj_create"
    /\ \E r \in PostOutcomes, j \in JobIds :
        LET res == CreateJobResult(r)
            got == IF r = "ok_id" THEN j ELSE NoJob
        IN  /\ log' = Append(log, Ev("createJob", got, r, 0))
            /\ result' = res
            /\ job_id' = IF res.kind = "none" THEN got ELSE NoJob
            /\ pc' = IF res.kind = "none" THEN RunJobNext("rj_create") ELSE "done"
    /\ UNCHANGED <<op, arg, job_status, script, params, elapsed>>
    /\ config' = SelfAfter(config, op)
    /\ UNCHANGED <<body, exportVars>>

\* The initial get_job_status of run_job.
RjStatus ==
    /\ pc = "rj_status"
    /\ \E r \in GetJobOutcomes :
        /\ log' = Append(log, Ev("getJob", UrlJob(job_id), r, 0))
        /\ result' = IF r \in TransportFailures THEN RequestFailure(r) ELSE NoResult
        /\ pc' = IF r \in TransportFailures THEN "done" ELSE RunJobNext("rj_status")
    /\ UNCHANGED <<op, arg, job_id, job_status, script, params, elapsed>>
    /\ config' = SelfAfter(config, op)
    /\ UNCHANGED <<body, exportVars>>

\* submit_job(job_id) of run_job; wait_for_job_completion comes next.
RjSubmit ==
    /\ pc = "rj_submit"
    /\ \E r \in SubmitOutcomes :
        /\ log' = Append(log, Ev("submit", UrlJob(job_id), r, 0))
        /\ result' = SubmitResult(r)
        /\ pc' = IF SubmitResult(r).kind = "none" THEN RunJobNext("rj_submit") ELSE "done"
    /\ elapsed' = 0
    /\ UNCHANGED <<op, arg, job_id, job_status, script, params>>
    /\ config' = SelfAfter(config, op)
    /\ UNCHANGED <<body, exportVars>>

\* cancel_job(job_id), to its POST.
Call_cancel_job ==
    /\ CanCall
    /\ \E j \in JobIds : job_id' = j
    /\ op' = "cancel_job"
    /\ pc' = "cj_post"
    /\ UNCHANGED <<arg, job_status, script, log, result, params, elapsed>>
    /\ config' = SelfAfter(config, op')
    /\ UNCHANGED <<body, exportVars>>

\* The POST of cancel_job and the return of its decoded response.
CjPost ==
    /\ pc = "cj_post"
    /\ \E r \in SubmitOutcomes :
        /\ log' = Append(log, Ev("cancel", UrlJob(job_id), r, 0))
        /\ result' = IF SubmitResult(r).kind = "none"
                     THEN Return("CANCELLED") ELSE SubmitResult(r)
    /\ pc' = "done"
    /\ UNCHANGED <<op, arg, job_id, job_status, script, params, elapsed>>
    /\ config' = SelfAfter(config, op)
    /\ UNCHANGED <<body, exportVars>>

\* export_data(page_size), to its first page request.
Call_export_data ==
    /\ CanCall
    /\ op' = "export_data"
    /\ IF config.model_id = "None"
       THEN /\ pc' = "done"
            /\ result' = Raise("ValueError", "Model ID must be set to export data", "-", "-")
            /\ next_page_url' = NoUrl
       ELSE /\ pc' = "exp_page"
            /\ result' = NoResult
            /\ next_page_url' = FirstUrl
    /\ pages' = <<>>
    /\ all_data' = <<>>
    /\ columns' = NoColumns
    /\ config' = SelfAfter(config, op')
    /\ UNCHANGED <<arg, job_id, job_status, script, log, params, elapsed, body>>

\* One page request of the loop of export_data and the handling of its
\* response; after the last page, the making of the DataFrame.
ExportPage ==
    /\ pc = "exp_page"
    /\ Len(pages) < MaxPages
    /\ \E f \in {"none"} \cup TransportFailures, n \in PageRows, h \in Headers,
          nx \in NextPages, legacy \in BOOLEAN :
        IF f # "none"
        THEN /\ pages' = Append(pages, Page(next_page_url, f, 0, "-", "None"))
             /\ result' = ExportFailure(f, legacy)
             /\ pc' = "done"
             /\ UNCHANGED <<all_data, next_page_url, columns>>
        ELSE LET data  == all_data \o DataRows(Len(pages) + 1, n)
                 frame == BuildFrame(data, h)
             IN  /\ pages' = Append(pages, Page(next_page_url, "ok", n, h, nx))
                 /\ all_data' = data
                 /\ next_page_url' = nx
                 /\ IF nx # "None"
                    THEN /\ pc' = "exp_page"
                         /\ result' = NoResult
                         /\ columns' = NoColumns
                    ELSE /\ pc' = "done"
                         /\ result' = frame
                         /\ columns' = IF frame.kind = "return" THEN h ELSE NoColumns
    /\ config' = SelfAfter(config, op)
    /\ UNCHANGED <<op, arg, job_id, job_status, script, log, params, elapsed, body>>

Next ==
    \/ Call_start_with_data
    \/ SwdPost
    \/ Call_start_with_file
    \/ SwfPost
    \/ Call_monitor_job_status
    \/ MonInitialSleep
    \/ MonCheck
    \/ MonDetail
    \/ MonSleep
    \/ Call_process_data
    \/ Call_wait_for_job_completion
    \/ WaitCheck
    \/ WaitSleep
    \/ Call_run_job
    \/ RjCreate
    \/ RjStatus
    \/ RjSubmit
    \/ Call_cancel_job
    \/ CjPost
    \/ Call_export_data
    \/ ExportPage
    \/ Finish

Spec == Init /\ [][Next]_vars

\* The steps of _monitor_job_status called on its own.
PollerNext ==
    \/ Call_monitor_job_status
    \/ MonInitialSleep
    \/ MonCheck
    \/ MonDetail
    \/ MonSleep
    \/ Finish

\* The poller under the scheduling of the code.  The client is
\* single-threaded and blocking: a sleep ends, and a request that is answered
\* (or fails) is handled, so a poller that can take its next step takes it.
LiveSpec ==
    /\ Init
    /\ [][PollerNext]_vars
    /\ WF_vars(MonInitialSleep)
    /\ WF_vars(MonCheck)
    /\ WF_vars(MonSleep)

----------------------------------------------------------------------------
(* The vocabulary of the properties.                                       *)

\* The places of the log that hold an event of kind k.
Places(k) == { i \in 1..Len(log) : log[i].kind = k }

\* A status value outside {COMPLETED, ERROR, CANCELLED}.
NonTerminalValue(s) == s \in StatusValues \ {"COMPLETED", "ERROR", "CANCELLED"}

\* The script is zero or more non-terminal values followed by COMPLETED.
EndsCompleted(sc) ==
    /\ Len(sc) >= 1
    /\ sc[Len(sc)] = "COMPLETED"
    /\ \A i \in 1..(Len(sc) - 1) : NonTerminalValue(sc[i])

\* The first place of the script that holds COMPLETED with only
\* non-terminal values before it; 0 when there is none.
FirstCompleted(sc) ==
    LET ks == { k \in 1..Len(sc) :
                  sc[k] = "COMPLETED" /\ \A i \in 1..(k - 1) : NonTerminalValue(sc[i]) }
    IN  IF ks = {} THEN 0 ELSE CHOOSE k \in ks : TRUE

\* No status check of the log failed in transport.
NoCheckFailed == \A i \in Places("status") : log[i].resp \in StatusValues

\* Between two consecutive status checks of the log lies exactly one sleep,
\* and nothing else.
OneDelayBetweenChecks ==
    \A i, j \in Places("status") :
        (i < j /\ \A k \in Places("status") : ~(i < k /\ k < j))
            => j = i + 2 /\ log[i + 1].kind = "sleep"

\* The poller has returned normally: the call returned, or, in process_data,
\* went on to subscript the None that start_with_data returned.
PollerReturned ==
    IF op = "process_data" THEN result.exc = "TypeError" ELSE result.kind = "return"

\* The poller is running or has run in the current call.
Polled == script # <<>>

----------------------------------------------------------------------------
(* C1 -- For a status history of zero or more non-terminal values followed *)
(* by COMPLETED and no transport failure, _monitor_job_status issues       *)
(* exactly as many status checks as the history is long, with one delay    *)
(* between consecutive checks, and then returns normally: it never checks  *)
(* more often, has not ended while checks are missing, and has returned    *)
(* once the last one is made.                                              *)
C1_ExactChecks ==
    (Polled /\ EndsCompleted(script) /\ NoCheckFailed) =>
        /\ NumChecks <= Len(script)
        /\ OneDelayBetweenChecks
        /\ (NumChecks < Len(script) => result.kind = "none" /\ pc # "done")
        /\ (NumChecks = Len(script) => PollerReturned /\ pc = "done")

C1_Witness ==
    /\ op = "_monitor_job_status"
    /\ EndsCompleted(script)
    /\ Len(script) = 3
    /\ NumChecks = 3
    /\ Len(SelectKind(log, "sleep")) = 3
    /\ result.kind = "return"

(* C2 -- start_with_data with non-empty rectangular rows, whose POST       *)
(* answers with an id and whose job reaches COMPLETED after non-terminal   *)
(* values only, returns without error at the first status check that       *)
(* observes COMPLETED: not before it, and no status check follows it.      *)
C2_ReturnsAtCompleted ==
    LET k == FirstCompleted(script)
    IN  ( /\ op = "start_with_data"
          /\ arg.nrows > 0 /\ arg.ncols > 0
          /\ Polled
          /\ k > 0
          /\ NoCheckFailed ) =>
            /\ log[1].kind = "startWithData" /\ log[1].resp = "ok_id"
            /\ NumChecks <= k
            /\ (NumChecks < k => result.kind = "none" /\ pc # "done")
            /\ (NumChecks = k =>
                    /\ result.kind = "return"
                    /\ pc = "done"
                    /\ log[Len(log)].kind = "status"
                    /\ log[Len(log)].resp = "COMPLETED")

C2_Witness ==
    /\ op = "start_with_data"
    /\ arg.repr = "list" /\ arg.nrows = 2 /\ arg.ncols = 2
    /\ script = <<"RUNNING", "COMPLETED", "ERROR">>
    /\ NumChecks = 2
    /\ result = Return("None")

(* C3 -- When the poller first observes ERROR or CANCELLED it attempts     *)
(* exactly one extended-detail fetch, issues no further status check, and  *)
(* the call ends by raising the job-failed error that carries the observed *)
(* status.                                                                 *)
C3_FailureRaisesJobFailed ==
    \A i \in Places("status") :
        log[i].resp \in {"ERROR", "CANCELLED"} =>
            /\ \A j \in Places("status") : j <= i
            /\ Cardinality(Places("detail")) <= 1
            /\ pc = "done" =>
                /\ Cardinality(Places("detail")) = 1
                /\ result.kind = "raise"
                /\ result.msg = "Job failed with status"
                /\ result.status = log[i].resp

(* C4 -- The extended-detail fetch is best-effort: when it fails (transport *)
(* error, non-200 response, undecodable body) the poller still raises the   *)
(* job-failed error with the observed status.                               *)
C4_DetailFailureSwallowed ==
    \A i \in Places("detail") :
        log[i].resp \in {"conn_error", "non_200", "ok_bad_json"} =>
            /\ result.kind = "raise"
            /\ result.msg = "Job failed with status"
            /\ result.status = job_status
            /\ job_status \in {"ERROR", "CANCELLED"}

(* C5 -- A transport-level failure of a status check is fatal: the check   *)
(* is not retried, no later status check is issued, and the call ends by   *)
(* raising an error.                                                       *)
C5_CheckFailureFatal ==
    \A i \in Places("status") :
        log[i].resp \in TransportFailures =>
            /\ i = Len(log)
            /\ pc = "done"
            /\ result.kind = "raise"

C5_Witness ==
    /\ NumChecks = 2
    /\ log[Len(log)].kind = "status"
    /\ log[Len(log)].resp = "http_error"
    /\ result.kind = "raise"

(* C6 -- Every observed status outside {COMPLETED, ERROR, CANCELLED},      *)
(* unrecognised strings included, is non-terminal: at that observation the *)
(* poller neither returns nor raises, and what follows is the inter-check  *)
(* delay and then a further status check.                                  *)
C6_NonTerminalKeepsPolling ==
    \A i \in Places("status") :
        NonTerminalValue(log[i].resp) =>
            /\ (i = Len(log) => result.kind = "none" /\ pc = "mon_sleep3")
            /\ (i < Len(log) => log[i + 1] = Ev("sleep", NoJob, "-", CheckDelay))
            /\ (i + 1 = Len(log) => result.kind = "none" /\ pc = "mon_check")
            /\ (i + 1 < Len(log) => log[i + 2].kind = "status")

C6_Witness ==
    /\ NumChecks = 3
    /\ \E i \in Places("status") :
        /\ log[i].resp = "BOGUS"
        /\ i + 2 \in Places("status")
        /\ log[i + 2].resp = "FAILED"
        /\ i + 4 \in Places("status")

(* C7 -- When the job-creation POST of start_with_data fails with a        *)
(* transport or HTTP error, the call fails by raising an error: the caller *)
(* does not get a normal return.                                           *)
C7_PostFailureRaises ==
    \A i \in Places("startWithData") :
        (arg.nrows > 0 /\ arg.ncols > 0 /\ log[i].resp \in {"conn_error", "http_error"})
            => result.kind = "raise"

(* C8 -- When the job-creation POST of start_with_data fails with a        *)
(* transport or HTTP error, no status check and no other request is issued *)
(* afterwards in that call.                                                *)
C8_PostFailureNoPolling ==
    \A i \in Places("startWithData") :
        log[i].resp \in {"conn_error", "http_error"} =>
            /\ i = Len(log)
            /\ pc = "done"
            /\ ~Polled

C8_Witness ==
    /\ op = "start_with_data"
    /\ pc = "done"
    /\ Len(log) = 1
    /\ log[1].kind = "startWithData"
    /\ log[1].resp = "http_error"

(* C9 -- start_with_data called with an empty row sequence, given as an    *)
(* empty list of rows or as an empty DataFrame, raises a validation error  *)
(* and issues no network request.                                          *)
C9_EmptyRowsRejected ==
    (op = "start_with_data" /\ arg.nrows = 0) =>
        /\ log = <<>>
        /\ pc = "done" => result.kind = "raise" /\ result.exc = "ValueError"

(* C10 -- start_with_file called with empty content (an empty or           *)
(* whitespace-only file text, or an empty DataFrame) raises a validation   *)
(* error before any network request is issued.                             *)
C10_EmptyContentRejected ==
    LET blank == \A i \in 1..Len(arg.text) : arg.text[i] \in Whitespace
        empty == \/ arg.repr = "path" /\ arg.exists /\ blank
                 \/ arg.repr = "file" /\ blank
                 \/ arg.repr = "DataFrame" /\ (arg.nrows = 0 \/ arg.ncols = 0)
    IN  (op = "start_with_file" /\ empty) =>
            /\ log = <<>>
            /\ pc = "done"
            /\ result.kind = "raise"
            /\ result.exc = "ValueError"

C10_Witness ==
    /\ op = "start_with_file"
    /\ arg.repr = "file"
    /\ arg.text = <<"nl", "sp">>
    /\ result.kind = "raise"
    /\ log = <<>>

(* C11 -- start_with_file is synchronous end-to-end: it returns the job id *)
(* only after the poller has observed COMPLETED for that job, and when the *)
(* poller ends with a terminal failure or a failed status check it raises  *)
(* and returns no job id.                                                  *)
C11_FileSynchronous ==
    op = "start_with_file" =>
        /\ result.kind = "return" =>
            /\ log[1].kind = "startWithFile"
            /\ result.value \in JobIds
            /\ result.value = log[1].job
            /\ log[Len(log)] = Ev("status", result.value, "COMPLETED", 0)
        /\ \A i \in Places("status") :
            log[i].resp \in {"ERROR", "CANCELLED"} \cup TransportFailures =>
                /\ result.kind # "return"
                /\ pc = "done" => result.kind = "raise"

C11_Witness ==
    /\ op = "start_with_file"
    /\ result = Return("job2")
    /\ NumChecks = 2

(* C12 -- When the POST of start_with_file answers with an HTTP status of  *)
(* 400 or above, the call raises a submission error and no status check is *)
(* issued.                                                                 *)
C12_FileHttpErrorRaises ==
    \A i \in Places("startWithFile") :
        log[i].resp = "http_error" =>
            /\ i = Len(log)
            /\ pc = "done"
            /\ result.kind = "raise"
            /\ result.exc = "RequestException"
            /\ Places("status") = {}
            /\ ~Polled

C12_Witness ==
    /\ op = "start_with_file"
    /\ arg.repr = "path"
    /\ Len(log) = 1
    /\ log[1].resp = "http_error"
    /\ result.kind = "raise"

(* C13 -- In start_with_data and in start_with_file a successful response  *)
(* whose decoded body has no id makes the call raise, and no status check  *)
(* is issued.                                                              *)
C13_MissingIdRaises ==
    \A i \in Places("startWithData") \cup Places("startWithFile") :
        log[i].resp = "ok_no_id" =>
            /\ i = Len(log)
            /\ pc = "done"
            /\ result.kind = "raise"
            /\ Places("status") = {}
            /\ ~Polled

C13_Witness ==
    /\ op = "start_with_data"
    /\ Len(log) = 1
    /\ log[1].resp = "ok_no_id"
    /\ result.kind = "raise"
    /\ result.exc = "KeyError"

----------------------------------------------------------------------------
(* The vocabulary of the properties of the explicit path.                  *)

\* The status checks of wait_for_job_completion in the log: in run_job, the
\* get_job_status requests after the submit.
WaitChecks ==
    { i \in Places("getJob") :
        op = "run_job" => \E k \in Places("submit") : k < i }

\* The seconds the requests and sleeps of the log took together.
RECURSIVE SumSecs(_)
SumSecs(l) == IF l = <<>> THEN 0 ELSE Head(l).secs + SumSecs(Tail(l))

\* wait_for_job_completion(job, 10, 5) on a job that never shows COMPLETED or
\* FAILED, with no failed request.
C14_Case ==
    /\ op = "wait_for_job_completion"
    /\ params = [poll_interval |-> 10, timeout |-> 5]
    /\ \A i \in Places("getJob") :
        log[i].resp \in StructStatuses \ {"COMPLETED", "FAILED"}

(* C14, as stated -- wait_for_job_completion with timeout=5 and            *)
(* poll_interval=10 on a status source that always returns a non-terminal  *)
(* value raises TimeoutError before ever re-polling: exactly one status    *)
(* check is issued in the call.                                            *)
C14_TimeoutBeforeRepoll ==
    (C14_Case /\ pc = "done") =>
        /\ result.exc = "TimeoutError"
        /\ Cardinality(Places("getJob")) = 1

(* C14, amended -- the call raises TimeoutError at the first status check  *)
(* that ends more than 5 seconds after the start.  When the first check    *)
(* answers within the timeout, the call sleeps one poll_interval and times *)
(* out at the second check: two status checks are issued.  Only a first    *)
(* request that itself takes longer than the timeout gives a single check. *)
C14_TimeoutAtSecondCheck ==
    C14_Case =>
        /\ Cardinality(Places("getJob")) <= 2
        /\ pc = "done" => result.exc = "TimeoutError"
        /\ \A i \in Places("getJob") :
            /\ (i = 1 /\ log[1].secs <= 5 /\ Len(log) = 1) =>
                    pc = "wait_sleep" /\ result.kind = "none"
            /\ (i = 1 /\ log[1].secs <= 5 /\ Len(log) > 1) =>
                    log[2] = Ev("sleep", NoJob, "-", 10)
            /\ (i = 1 /\ log[1].secs > 5) => pc = "done" /\ Len(log) = 1
            /\ i > 1 => i = 3 /\ i = Len(log) /\ pc = "done"

C14_Witness ==
    /\ C14_Case
    /\ Cardinality(Places("getJob")) = 2
    /\ log[1].secs = 0
    /\ log[3].secs = 0
    /\ result.exc = "TimeoutError"

(* C15 -- wait_for_job_completion never returns a status object whose      *)
(* status is non-terminal: every normal return carries COMPLETED or FAILED; *)
(* TimeoutError is raised only at a check that observed a status outside   *)
(* {COMPLETED, FAILED} with more than timeout seconds elapsed; a terminal  *)
(* status observed after the deadline is returned all the same.            *)
C15_WaitReturnsTerminal ==
    op \in {"wait_for_job_completion", "run_job"} =>
        /\ result.kind = "return" =>
            /\ result.value \in {"COMPLETED", "FAILED"}
            /\ Len(log) \in WaitChecks
            /\ log[Len(log)].resp = result.value
        /\ result.exc = "TimeoutError" =>
            /\ Len(log) \in WaitChecks
            /\ log[Len(log)].resp \in StructStatuses \ {"COMPLETED", "FAILED"}
            /\ SumSecs(log) > params.timeout
        /\ \A i \in WaitChecks :
            log[i].resp \in {"COMPLETED", "FAILED"} =>
                i = Len(log) /\ result = Return(log[i].resp)
        /\ \A i \in WaitChecks :
            (log[i].resp \in StructStatuses \ {"COMPLETED", "FAILED"}
                /\ SumSecs(SubSeq(log, 1, i)) <= params.timeout) =>
                    result.kind = "none" \/ i < Len(log)

C15_Witness ==
    /\ op = "wait_for_job_completion"
    /\ params.timeout = 2
    /\ SumSecs(log) = 8
    /\ result = Return("FAILED")

(* C16 -- Both pollers treat {COMPLETED, ERROR, CANCELLED, FAILED} as the  *)
(* terminal set: no status check of _monitor_job_status or of              *)
(* wait_for_job_completion follows the observation of any of the four.     *)
C16_SupersetTerminal ==
    LET checks == Places("status") \cup WaitChecks
    IN  \A i \in checks :
            log[i].resp \in {"COMPLETED", "ERROR", "CANCELLED", "FAILED"} =>
                \A j \in checks : j <= i

(* C17 -- process_data, when the inline submission succeeds and the job    *)
(* completes, takes the job id from the submission result, calls           *)
(* submit_job and wait_for_job_completion with it and returns the final    *)
(* status.                                                                 *)
C17_ProcessDataPipeline ==
    ( /\ op = "process_data"
      /\ arg.nrows > 0 /\ arg.ncols > 0
      /\ pc = "done"
      /\ \E i \in Places("status") : log[i].resp = "COMPLETED" ) =>
        /\ result.kind = "return"
        /\ \E i \in Places("submit") : log[i].job = log[1].job
        /\ \E i \in Places("getJob") : log[i].job = log[1].job

(* C18 -- run_job issues its requests in this order: one create-job POST,  *)
(* one job-status GET, one submit POST, then one or more job-status GETs   *)
(* of wait_for_job_completion, and then returns the final status; it never *)
(* issues a startWithData or startWithFile request.                        *)
C18_RunJobOrder ==
    op = "run_job" =>
        LET reqs == { i \in 1..Len(log) : log[i].kind # "sleep" }
            nth(i) == Cardinality({ k \in reqs : k <= i })
        IN  /\ \A i \in reqs :
                log[i].kind = CASE nth(i) = 1 -> "createJob"
                                [] nth(i) = 2 -> "getJob"
                                [] nth(i) = 3 -> "submit"
                                [] OTHER      -> "getJob"
            /\ result.kind = "return" =>
                /\ Cardinality(reqs) >= 4
                /\ log[Len(log)].kind = "getJob"
                /\ result.value = log[Len(log)].resp

C18_Witness ==
    /\ op = "run_job"
    /\ Cardinality(Places("getJob")) = 3
    /\ Cardinality(Places("sleep")) = 1
    /\ result = Return("COMPLETED")

(* C19 -- run_job and process_data fail fast with no compensating action:  *)
(* when a stage raises, no request of a later stage is issued, and they    *)
(* never issue a cancel request; cancel requests come from cancel_job      *)
(* alone.                                                                  *)
C19_FailFastNoCancel ==
    LET failed(e) ==
            CASE e.kind \in {"createJob", "startWithData"} -> e.resp # "ok_id"
              [] e.kind = "submit"  -> e.resp # "ok"
              [] e.kind \in {"getJob", "status"} -> e.resp \in TransportFailures
              [] e.kind = "detail"  -> TRUE
              [] OTHER -> FALSE
    IN  /\ Places("cancel") # {} => op = "cancel_job"
        /\ op \in {"run_job", "process_data"} =>
            /\ \A i \in 1..Len(log) :
                failed(log[i]) => i = Len(log) /\ pc = "done" /\ result.kind = "raise"
            /\ result.kind = "raise" => pc = "done"

C19_Witness ==
    /\ op = "run_job"
    /\ Len(log) = 3
    /\ log[3].kind = "submit"
    /\ log[3].resp = "http_error"
    /\ result.kind = "raise"

(* C20 -- Within one call of start_with_data, start_with_file or run_job   *)
(* every status, detail and submit request issued after the job creation   *)
(* names the job id the creation response carried, and the id the call     *)
(* holds never changes.                                                    *)
C20_JobIdStable ==
    op \in {"start_with_data", "start_with_file", "run_job"} =>
        /\ \A i \in 1..Len(log) :
            log[i].kind \in {"status", "detail", "submit", "getJob"} =>
                /\ i > 1
                /\ log[1].kind \in {"startWithData", "startWithFile", "createJob"}
                /\ log[1].job \in JobIds
                /\ log[i].job = log[1].job
        /\ job_id # NoJob => job_id = log[1].job

C20_Witness ==
    /\ op = "run_job"
    /\ Len(log) = 6
    /\ log[1].job = "job2"
    /\ \A i \in 2..6 : log[i].kind # "sleep" => log[i].job = "job2"

----------------------------------------------------------------------------
(* The vocabulary of the properties of the delays, the export and the      *)
(* client's attributes.                                                    *)

\* The remote job never leaves the non-terminal values: every value of its
\* status history is outside {COMPLETED, ERROR, CANCELLED}.
StuckJob == Polled /\ \A i \in 1..Len(script) : NonTerminalValue(script[i])

\* The sleeps of the log that lasted d.
SleepsOf(d) == { i \in Places("sleep") : log[i].secs = d }

\* The page requests that were answered with a page.
OkPages == { i \in 1..Len(pages) : pages[i].resp = "ok" }

\* The rows export_data is to aggregate from the first n pages: of each
\* page, in order, all rows but the first.
RECURSIVE Aggregated(_)
Aggregated(n) ==
    IF n = 0 THEN <<>>
    ELSE Aggregated(n - 1) \o [ i \in 1..(pages[n].rows - 1) |-> <<n, i + 1>> ]

\* The sum over the first n pages of rows(page) - 1.
RECURSIVE SumRecords(_)
SumRecords(n) == IF n = 0 THEN 0 ELSE SumRecords(n - 1) + (pages[n].rows - 1)

\* Every page was answered, and the last one has no nextPage.
ExportComplete ==
    /\ Len(pages) >= 1
    /\ OkPages = 1..Len(pages)
    /\ pages[Len(pages)].next = "None"

\* The locals of every call are in their initial state.
NoCallState ==
    /\ op = "none" /\ arg = NoArg /\ job_id = NoJob /\ job_status = NoStatus
    /\ script = <<>> /\ log = <<>> /\ result = NoResult /\ params = NoParams
    /\ elapsed = 0 /\ body = NoBody /\ pages = <<>> /\ all_data = <<>>
    /\ next_page_url = NoUrl /\ columns = NoColumns

(* C21 -- The inline-path poller has no timeout and no bounded retry       *)
(* count: while the remote job shows only non-terminal values and no check *)
(* fails, _monitor_job_status neither returns nor raises, and for every N  *)
(* below the number of checks the model follows it issues more than N      *)
(* status checks.                                                          *)
C21_PollsForever ==
    /\ [](StuckJob /\ NoCheckFailed =>
            /\ result.kind = "none"
            /\ pc \in {"mon_sleep1", "mon_check", "mon_sleep3"})
    /\ \A n \in 0..(MaxChecks - 1) :
        (StuckJob /\ NumChecks = n) ~> (NumChecks > n \/ ~NoCheckFailed)

C21_Witness ==
    /\ op = "_monitor_job_status"
    /\ StuckJob
    /\ NoCheckFailed
    /\ NumChecks = MaxChecks
    /\ result.kind = "none"

(* C22 -- export_data follows the nextPage cursor page by page until a     *)
(* page has nextPage null; the aggregated result drops the first (header)  *)
(* row of every page and keeps all other rows in page order, so it holds   *)
(* the sum over pages of (rows(page) - 1) records, with columns named from *)
(* the final page's metadata.headers.                                      *)
C22_ExportAggregates ==
    /\ \A i \in 1..Len(pages) :
        pages[i].url = IF i = 1 THEN FirstUrl ELSE pages[i - 1].next
    /\ (op = "export_data" /\ pc = "done" /\ ExportComplete) =>
        /\ result = Return("DataFrame")
        /\ all_data = Aggregated(Len(pages))
        /\ Len(all_data) = SumRecords(Len(pages))
        /\ columns = pages[Len(pages)].headers

(* C23, as stated -- with valid content, the multipart body built by       *)
(* start_with_file contains exactly two parts, named file and metadata,    *)
(* and the metadata part's JSON has fileFormat "CSV" and fileEncoding      *)
(* "UTF-8" as fields of the metadata JSON object itself.                   *)
C23_MetadataFlat ==
    DOMAIN body # {} =>
        /\ DOMAIN body = {"file", "metadata"}
        /\ {"fileFormat", "fileEncoding"} \subseteq DOMAIN body.metadata.content
        /\ body.metadata.content.fileFormat = "CSV"
        /\ body.metadata.content.fileEncoding = "UTF-8"

(* C23, amended -- with valid content, the multipart body built by         *)
(* start_with_file contains exactly two parts, named file and metadata;    *)
(* the metadata part's JSON is an object with the one field input, and the *)
(* object under input has partName "file", fileFormat "CSV", fileEncoding  *)
(* "UTF-8" and the fileName of the file part.                              *)
C23_MetadataNested ==
    /\ Places("startWithFile") # {} => DOMAIN body # {}
    /\ DOMAIN body # {} =>
        /\ op = "start_with_file"
        /\ DOMAIN body = {"file", "metadata"}
        /\ DOMAIN body.metadata.content = {"input"}
        /\ body.metadata.content.input =
              [ partName |-> "file", fileFormat |-> "CSV", fileEncoding |-> "UTF-8",
                fileName |-> body.file.filename ]
        /\ ~ContentEmpty(body.file.content)

C23_Witness ==
    /\ op = "start_with_file"
    /\ arg.repr = "file"
    /\ Len(log) = 1
    /\ DOMAIN body = {"file", "metadata"}
    /\ body.file.content = <<"sp", "x", "nl">>
    /\ body.metadata.content.input.fileFormat = "CSV"

(* C24 -- The connection configuration fixed at construction (hub,         *)
(* api_user, api_key, template_id, model_id and the URLs and headers       *)
(* derived from them) is left unchanged by every step of every operation,  *)
(* on success and on error alike, and between calls the client holds no    *)
(* other state.                                                            *)
C24_ConfigImmutable ==
    /\ [][config' = config]_vars
    /\ [](config \in Configs)
    /\ [](pc = "idle" => NoCallState)

C24_Witness ==
    /\ op = "export_data"
    /\ pc = "done"
    /\ Len(pages) = 2
    /\ result = Return("None")
    /\ config = Construct("us1", "user", "key", "template", "model")

(* C25 -- Delay placement in the inline-path poller: exactly one initial   *)
(* delay (1 unit) occurs before the first status check; exactly one        *)
(* inter-check delay (3 units) occurs after each non-terminal observation  *)
(* and before the next check; no delay occurs after a terminal observation *)
(* (COMPLETED, ERROR, CANCELLED) or after a failed check; so a run with k  *)
(* status checks performs 1 initial delay and k-1 inter-check delays.      *)
C25_DelayPlacement ==
    Polled =>
        /\ Cardinality(SleepsOf(1)) <= 1
        /\ Places("sleep") = SleepsOf(1) \cup SleepsOf(3)
        /\ \A i \in Places("status") :
            /\ SleepsOf(1) # {}
            /\ \A k \in SleepsOf(1) : k < i /\ (\A j \in Places("status") : k < j)
            /\ \A k \in SleepsOf(3) : \E j \in Places("status") : j < k
            /\ NonTerminalValue(log[i].resp) =>
                /\ i < Len(log) => i + 1 \in SleepsOf(3)
                /\ i + 1 < Len(log) => log[i + 2].kind = "status"
            /\ ~NonTerminalValue(log[i].resp) =>
                \A k \in Places("sleep") : k < i
        /\ \A k \in SleepsOf(3) : k > 1 /\ log[k - 1].kind = "status"
        /\ (pc = "done" /\ NumChecks >= 1) =>
            /\ Cardinality(SleepsOf(1)) = 1
            /\ Cardinality(SleepsOf(3)) = NumChecks - 1

C25_Witness ==
    /\ op = "_monitor_job_status"
    /\ pc = "done"
    /\ NumChecks = 3
    /\ Cardinality(SleepsOf(1)) = 1
    /\ Cardinality(SleepsOf(3)) = 2
    /\ log[Len(log)].kind = "detail"

\* wait_for_job_completion under a clock that advances only during sleeps:
\* no request of the call takes time.
C26_Case ==
    /\ op \in {"wait_for_job_completion", "run_job"}
    /\ \A i \in 1..Len(log) : log[i].kind # "sleep" => log[i].secs = 0

(* C26 -- With a clock that advances only during sleeps, poll_interval >=  *)
(* 1 and a finite timeout >= 0, wait_for_job_completion issues at most     *)
(* floor(timeout / poll_interval) + 2 status checks and has ended (by      *)
(* returning, raising TimeoutError or propagating a get_job_status         *)
(* failure) once it has issued that many; the deadline test is strict, so  *)
(* a check that ends with elapsed time equal to timeout exactly is         *)
(* followed by a sleep and one more check.                                 *)
C26_WaitBounded ==
    C26_Case =>
        LET most == (params.timeout \div params.poll_interval) + 2
        IN  /\ Cardinality(WaitChecks) <= most
            /\ Cardinality(WaitChecks) = most =>
                /\ pc = "done"
                /\ \/ result.kind = "return"
                   \/ result.exc \in {"TimeoutError", "ConnectionError", "HTTPError",
                                      "JSONDecodeError"}
            /\ \A i \in WaitChecks :
                ( /\ log[i].resp \in StructStatuses \ {"COMPLETED", "FAILED"}
                  /\ SumSecs(SubSeq(log, 1, i)) = params.timeout ) =>
                    /\ i = Len(log) => pc = "wait_sleep" /\ result.kind = "none"
                    /\ i < Len(log) => log[i + 1].kind = "sleep"
                    /\ i + 1 < Len(log) => i + 2 \in WaitChecks

C26_Witness ==
    /\ op = "wait_for_job_completion"
    /\ C26_Case
    /\ params = [poll_interval |-> 1, timeout |-> 2]
    /\ Cardinality(WaitChecks) = 4
    /\ SumSecs(SubSeq(log, 1, 5)) = 2
    /\ result.exc = "TimeoutError"

(* C27 -- If a page request of export_data fails with a transport or HTTP  *)
(* error, export_data returns None and no further page is requested; what  *)
(* it returns is either the complete aggregation over all pages or None,   *)
(* never a partial aggregation.                                            *)
C27_ExportAllOrNone ==
    /\ \A i \in 1..Len(pages) :
        pages[i].resp \in {"conn_error", "http_error"} =>
            /\ i = Len(pages)
            /\ pc = "done"
            /\ result = Return("None")
            /\ columns = NoColumns
    /\ (op = "export_data" /\ result.kind = "return") =>
        \/ result = Return("None") /\ OkPages # 1..Len(pages)
        \/ /\ result = Return("DataFrame")
           /\ ExportComplete
           /\ all_data = Aggregated(Len(pages))

C27_Witness ==
    /\ op = "export_data"
    /\ Len(pages) = 2
    /\ pages[1].resp = "ok" /\ pages[1].rows = 3
    /\ pages[2].resp = "http_error"
    /\ Len(all_data) = 2
    /\ result = Return("None")

(* C28 -- In run_job, when create_job returns no job id (a 2xx response    *)
(* without id), run_job raises at once and issues no status, submit or     *)
(* other request after the create-job POST.                                *)
C28_NoJobIdRaises ==
    \A i \in Places("createJob") :
        log[i].resp = "ok_no_id" =>
            /\ Len(log) = 1
            /\ pc = "done"
            /\ result.kind = "raise"
            /\ result.exc = "ValueError"
            /\ job_id = NoJob

C28_Witness ==
    /\ op = "run_job"
    /\ Len(log) = 1
    /\ log[1].kind = "createJob"
    /\ log[1].resp = "ok_no_id"
    /\ result.exc = "ValueError"

====
